---- MODULE Spec2Model ----
(***************************************************************************)
(* Model of src/shotgun/flix.py (class flix): the credential lifecycle     *)
(* (authenticate, __get_token, reset, __get_headers), the export poll loop *)
(* (get_mo_quicktime_export), the marker/panel partition                   *)
(* (get_markers_per_panels), the per-shot media object resolution          *)
(* (mo_per_shots), the signer (__fn_sign), format_panel_for_revision, and  *)
(* the path of every operation from __get_headers to the request it sends. *)
(*                                                                         *)
(* Optional Python values are modelled as sequences of length <= 1:        *)
(* None is <<>> and a value v is <<v>>.  Time is counted in hours.        *)
(***************************************************************************)
EXTENDS Integers, Sequences, FiniteSets, TLC

VARIABLES
    self,       \* the fields of the flix object: hostname, login, password, key, secret, expiry
    origin,     \* history: which login reply / which login arguments the held fields come from
    now,        \* the wall clock read by datetime.now()
    posts,      \* number of POSTs to /authenticate issued so far (also the serial of the last reply)
    last,       \* record of the last completed call: what it was, what it returned or raised
    \* get_mo_quicktime_export, one call
    x_pc,       \* position in get_mo_quicktime_export
    chain_id,   \* local chain_id: what start_quicktime_export returned
    res,        \* local res: what the last get_chain returned
    retry,      \* local retry
    job,        \* the status of the export job on the service
    x_log,      \* history: the calls get_mo_quicktime_export made, in order
    x_ret,      \* how get_mo_quicktime_export ended: value returned or exception raised
    \* get_markers_per_panels, one call
    markers,    \* argument markers: the OrderedDict of get_markers, as (start, name) pairs in key order
    panels,     \* argument panels
    m_pc,       \* position in get_markers_per_panels: "idle", "loop", "returned" or the exception raised
    m_i,        \* loop index i (number of panels consumed)
    panel_in,   \* local panel_in
    marker_i,   \* local marker_i
    panels_per_markers, \* local panels_per_markers: shot name -> list of formatted panels
    \* mo_per_shots, one call
    mo_in,      \* argument panels_per_markers, as (shot name, panels) pairs in iteration order
    mo_pc,      \* position in mo_per_shots
    mo_s,       \* number of shots entered
    mo_p,       \* number of panels of the current shot consumed
    mo_acc,     \* local mo_per_shots
    mo_log,     \* history: how each get_asset of the call ended
    mo_ret,     \* how mo_per_shots ended
    \* two threads inside __get_token on the same object
    c_pc,       \* thread -> position in __get_token / authenticate
    c_loc,      \* thread -> its locals: what the test saw, the login reply, the value returned
    \* __fn_sign, one call
    s_in,       \* the arguments of the call
    s_out,      \* None, or how the call ended: the token returned or the exception raised
    \* format_panel_for_revision, one call
    f_panel,    \* argument panel
    f_pos,      \* argument pos
    f_out,      \* None, or the dict returned
    \* one operation of the client, from its first line to the request it sends
    utc,        \* the clock read by datetime.utcnow(): whole seconds and a sub-second part
    g_pc,       \* position in the operation
    g_op,       \* the operation called
    g_dt,       \* local dt of __get_headers
    g_tok,      \* locals key, secret of __get_headers
    g_headers,  \* what __get_headers returned
    g_log       \* history: the __get_token calls of the operation and the requests it sent

credVars == <<self, origin, now, posts, last>>

exportVars == <<x_pc, chain_id, res, retry, job, x_log, x_ret>>

markerVars == <<markers, panels, m_pc, m_i, panel_in, marker_i, panels_per_markers>>

moVars == <<mo_in, mo_pc, mo_s, mo_p, mo_acc, mo_log, mo_ret>>

concVars == <<c_pc, c_loc>>

signVars == <<s_in, s_out>>

formatVars == <<f_panel, f_pos, f_out>>

gateVars == <<utc, g_pc, g_op, g_dt, g_tok, g_headers, g_log>>

pureVars == <<signVars, formatVars>>

(* What the calls on one part of the object leave alone *)
notCred == <<exportVars, markerVars, moVars, concVars, pureVars, gateVars>>
notExport == <<credVars, markerVars, moVars, concVars, pureVars, gateVars>>
notMarkers == <<credVars, exportVars, moVars, concVars, pureVars, gateVars>>
notMo == <<credVars, exportVars, markerVars, concVars, pureVars, gateVars>>
notConc == <<exportVars, markerVars, moVars, pureVars, gateVars>>
notSign == <<credVars, exportVars, markerVars, moVars, concVars, formatVars, gateVars>>
notFormat == <<credVars, exportVars, markerVars, moVars, concVars, signVars, gateVars>>
notGate == <<exportVars, markerVars, moVars, concVars, pureVars>>

vars == <<self, origin, now, posts, last, x_pc, chain_id, res, retry, job, x_log, x_ret,
          markers, panels, m_pc, m_i, panel_in, marker_i, panels_per_markers,
          mo_in, mo_pc, mo_s, mo_p, mo_acc, mo_log, mo_ret, c_pc, c_loc,
          s_in, s_out, f_panel, f_pos, f_out,
          utc, g_pc, g_op, g_dt, g_tok, g_headers, g_log>>

----------------------------------------------------------------------------
(* Bounds of the model *)

MaxLogins == 2      \* login POSTs explored
MaxNow == 3         \* clock ticks explored
MaxTTL == 3         \* largest lifetime (hours) of a credential the login endpoint issues
MaxPolls == 4       \* status fetches explored in one export
MaxStart == 3       \* largest marker start explored
MaxMarkers == 3     \* most markers explored
MaxPanels == 3      \* most panels explored
MaxDur == 2         \* largest panel duration explored
MaxShots == 3       \* most shot groups explored in mo_per_shots
MaxGroup == 2       \* most panels in one shot group
MaxUtc == 1         \* seconds the utcnow() clock can advance
MaxPos == 2         \* largest pos handed to format_panel_for_revision

(* Program constant: timedelta(hours=2) in __get_token *)
Margin == 2

----------------------------------------------------------------------------
(* Values *)

None == <<>>
Some(v) == <<v>>
Val(o) == o[1]

(* The (hostname, login, password) triples callers log in with *)
Accounts == {<<"h1", "u1", "p1">>, <<"h2", "u2", "p2">>}

ReplyFields == {"id", "secret_access_key", "expiry_date"}

(* What the POST to /authenticate can do: fail in transport            *)
(* (ConnectionError), answer non-2xx (HTTPError from raise_for_status),    *)
(* answer a body that is not JSON, or answer a JSON object that may miss   *)
(* one of the three fields.  The expiry the server chooses is now + ttl,   *)
(* written with or without a fractional-seconds suffix.                    *)
LoginOutcomes ==
    [kind : {"ConnectionError", "HTTPError", "BadJSON"}, missing : {""}, ttl : {0}, frac : {""}]
    \cup
    [kind : {"reply"}, missing : {""} \cup ReplyFields, ttl : 0..MaxTTL, frac : {"", ".123456Z"}]

(* The JSON object of reply number n: a function on the fields present. *)
Response(out, n, t) ==
    [f \in ReplyFields \ {out.missing} |->
        CASE f = "id" -> [k |-> n]
          [] f = "secret_access_key" -> [s |-> n]
          [] f = "expiry_date" -> [whole |-> t + out.ttl, frac |-> out.frac]]

(* datetime.strptime(s.split('.')[0], '%Y-%m-%dT%H:%M:%S'): the fractional  *)
(* part is cut off and the rest is read as a time.                         *)
ParseExpiry(s) == s.whole

Cleared_keepsLogin == [hostname |-> None, login |-> Some("u1"), password |-> Some("p1"),
                       key |-> None, secret |-> None, expiry |-> None]

(* The fields after reset, lines 448-453 *)
Cleared == [hostname |-> None, login |-> None, password |-> None,
            key |-> None, secret |-> None, expiry |-> None]

NoOrigin == [expiry |-> None, who |-> None]

(* How a login POST ended, as later formulas name it *)
How(out) == IF out.kind = "reply"
            THEN (IF out.missing = "" THEN "complete" ELSE out.missing)
            ELSE out.kind

(* What a call did: the object and history after it, the value returned or  *)
(* the exception raised, the number of login POSTs it issued, how the POST  *)
(* ended, and the number of times self.authenticate was entered.            *)
Outcome(o, g, ret, exc, n, how) ==
    [obj |-> o, org |-> g, ret |-> ret, exc |-> exc, posts |-> n, how |-> how, auths |-> 1]

----------------------------------------------------------------------------
AuthFailed_stored(o, h, l, p) == [o EXCEPT !.hostname = h, !.login = l, !.password = p]

(* The object after the except branch of authenticate, lines 53-55: the     *)
(* request or raise_for_status raised before lines 50-52 were reached.      *)
AuthFailed(o, h, l, p) == o

(* authenticate(hostname, login, password), lines 26-61, as a function of   *)
(* the object, the arguments (optional values) and the endpoint's outcome.  *)
(* n is the serial of the reply, t the server's clock.                      *)
authenticate(o, g, h, l, p, out, n, t) ==
    IF l = None \/ p = None \/ h = None
    THEN Outcome(o, g, None, "TypeError", 0, "")             \* line 39 / line 46: str + None
    ELSE IF out.kind \in {"ConnectionError", "HTTPError"}
    THEN Outcome(AuthFailed(o, h, l, p), g, None, "", 1, How(out))    \* lines 53-55
    ELSE IF out.kind = "BadJSON"
    THEN Outcome(o, g, None, "ValueError", 1, How(out))      \* line 49, not a RequestException
    ELSE
      LET response == Response(out, n, t)
          o1 == [o EXCEPT !.hostname = h, !.login = l, !.password = p]   \* lines 50-52
      IN  IF "id" \notin DOMAIN response
          THEN Outcome(o1, g, None, "KeyError", 1, How(out))          \* line 57
          ELSE
          LET o2 == [o1 EXCEPT !.key = Some(response["id"])]
              g2 == [g EXCEPT !.who = Some(<<h, l, p>>)]
          IN  IF "secret_access_key" \notin DOMAIN response
              THEN Outcome(o2, g2, None, "KeyError", 1, How(out))     \* line 58
              ELSE
              LET o3 == [o2 EXCEPT !.secret = Some(response["secret_access_key"])]
              IN  IF "expiry_date" \notin DOMAIN response
                  THEN Outcome(o3, g2, None, "KeyError", 1, How(out)) \* line 59
                  ELSE
                  LET o4 == [o3 EXCEPT !.expiry = Some(ParseExpiry(response["expiry_date"]))]
                      g4 == [g2 EXCEPT !.expiry = Some(n)]
                  IN  Outcome(o4, g4, Some(response), "", 1, How(out))

NeedsRefresh_ge(o, t) ==
    \/ o.key = None
    \/ o.secret = None
    \/ o.expiry = None
    \/ t + Margin >= Val(o.expiry)

(* The test of __get_token, lines 630-631. *)
NeedsRefresh(o, t) ==
    \/ o.key = None
    \/ o.secret = None
    \/ o.expiry = None
    \/ t + Margin > Val(o.expiry)

SubscriptNone_heldPair(a) == [a EXCEPT !.ret = Some(<<a.obj.key, a.obj.secret>>)]

(* Line 634 when authenticate returned None: None['id'] raises TypeError.   *)
SubscriptNone(a) == [a EXCEPT !.exc = "TypeError"]

(* __get_token, lines 623-642. *)
get_token(o, g, out, n, t) ==
    IF NeedsRefresh(o, t)
    THEN LET a == authenticate(o, g, o.hostname, o.login, o.password, out, n, t)
         IN  IF a.exc # ""
             THEN a                                                     \* raised inside authenticate
             ELSE IF a.ret = None
             THEN SubscriptNone(a)
             ELSE
             LET tok == Val(a.ret)
                 o2 == [a.obj EXCEPT !.key = Some(tok["id"]),
                                     !.secret = Some(tok["secret_access_key"]),
                                     !.expiry = Some(ParseExpiry(tok["expiry_date"]))]
             IN  [a EXCEPT !.obj = o2, !.ret = Some(<<o2.key, o2.secret>>)]   \* line 642
    ELSE [Outcome(o, g, Some(<<o.key, o.secret>>), "", 0, "") EXCEPT !.auths = 0]

----------------------------------------------------------------------------
(* The calls, one action each *)

Call(op, r, sent) ==
    [op |-> op, exc |-> r.exc, ret |-> r.ret, posts |-> r.posts, how |-> r.how,
     auths |-> r.auths, sent |-> sent]

Idle(op) == [op |-> op, exc |-> "", ret |-> None, posts |-> 0, how |-> "", auths |-> 0, sent |-> 0]

CredInit ==
    /\ self = Cleared                   \* __init__ calls reset()
    /\ origin = NoOrigin
    /\ now = 0
    /\ posts = 0
    /\ last = Idle("init")

(* No export under way *)
ExportIdle ==
    /\ x_pc = "idle"
    /\ chain_id = None
    /\ res = None
    /\ retry = 0
    /\ job = "queued"
    /\ x_log = <<>>
    /\ x_ret = [kind |-> "", val |-> None]

EmptyDict == [n \in {} |-> <<>>]

(* No get_markers_per_panels under way *)
MarkersIdle ==
    /\ markers = <<>>
    /\ panels = <<>>
    /\ m_pc = "idle"
    /\ m_i = 0
    /\ panel_in = 0
    /\ marker_i = 0
    /\ panels_per_markers = EmptyDict

(* No mo_per_shots under way *)
MoIdle ==
    /\ mo_in = <<>>
    /\ mo_pc = "idle"
    /\ mo_s = 0
    /\ mo_p = 0
    /\ mo_acc = EmptyDict
    /\ mo_log = <<>>
    /\ mo_ret = [kind |-> "", val |-> None]

(* No thread inside __get_token *)
ConcIdle ==
    /\ c_pc = <<>>
    /\ c_loc = <<>>

(* No __fn_sign under way *)
SignIdle ==
    /\ s_in = None
    /\ s_out = None

(* No format_panel_for_revision under way *)
FormatIdle ==
    /\ f_panel = None
    /\ f_pos = 0
    /\ f_out = None

(* No operation under way *)
GateIdle ==
    /\ utc = [sec |-> 0, frac |-> 0]
    /\ g_pc = "idle"
    /\ g_op = ""
    /\ g_dt = None
    /\ g_tok = None
    /\ g_headers = None
    /\ g_log = <<>>

OthersIdle == SignIdle /\ FormatIdle /\ GateIdle

Init == CredInit /\ ExportIdle /\ MarkersIdle /\ MoIdle /\ ConcIdle /\ OthersIdle

Authenticate ==
    \E a \in Accounts, out \in LoginOutcomes :
        /\ LET r == authenticate(self, origin, Some(a[1]), Some(a[2]), Some(a[3]), out, posts + 1, now)
           IN  /\ posts + r.posts <= MaxLogins
               /\ self' = r.obj
               /\ origin' = r.org
               /\ posts' = posts + r.posts
               /\ last' = Call("authenticate", r, 0)
        /\ UNCHANGED <<now, notCred>>

GetToken ==
    \E out \in LoginOutcomes :
        /\ LET r == get_token(self, origin, out, posts + 1, now)
           IN  /\ posts + r.posts <= MaxLogins
               /\ self' = r.obj
               /\ origin' = r.org
               /\ posts' = posts + r.posts
               /\ last' = Call("get_token", r, 0)
        /\ UNCHANGED <<now, notCred>>

(* Any domain operation (get_asset, get_chain, ...): __get_headers is       *)
(* evaluated before the try block, so whatever __get_token raises leaves    *)
(* the operation before any request is sent; otherwise one signed request   *)
(* is sent.                                                                 *)
Request ==
    \E out \in LoginOutcomes :
        /\ LET r == get_token(self, origin, out, posts + 1, now)
           IN  /\ posts + r.posts <= MaxLogins
               /\ self' = r.obj
               /\ origin' = r.org
               /\ posts' = posts + r.posts
               /\ last' = Call("request", r, IF r.exc = "" THEN 1 ELSE 0)
        /\ UNCHANGED <<now, notCred>>

(* reset, lines 445-453 *)
Reset ==
    /\ self' = Cleared
    /\ origin' = NoOrigin
    /\ last' = Idle("reset")
    /\ UNCHANGED <<now, posts, notCred>>

Tick ==
    /\ now < MaxNow
    /\ now' = now + 1
    /\ last' = Idle("tick")
    /\ UNCHANGED <<self, origin, posts, notCred>>

Next == Authenticate \/ GetToken \/ Request \/ Reset \/ Tick

Spec == Init /\ [][Next]_vars

----------------------------------------------------------------------------
(* Properties of the credential lifecycle, checked under Spec *)

TokenCall(l) == l.op \in {"get_token", "request"}

(* C1: __get_token enters authenticate (and, when login data are held,      *)
(* issues exactly one login POST) if and only if key, secret or expiry is   *)
(* missing or now + 2h > expiry.  expiry = now + 1h refreshes; expiry =     *)
(* now + 2h or now + 3h does not, and then the held (key, secret) is        *)
(* returned and the object is unchanged.                                    *)
C1_RefreshIffStale ==
    [][TokenCall(last') =>
        LET incomplete == self.key = None \/ self.secret = None \/ self.expiry = None
            stale == incomplete \/ now + 2 > Val(self.expiry)
        IN  /\ (last'.auths = 1) <=> stale
            /\ self.hostname # None => ((last'.posts = 1) <=> stale)
            /\ ~stale => /\ last'.exc = ""
                         /\ last'.ret = Some(<<self.key, self.secret>>)
                         /\ self' = self
            /\ (~incomplete /\ Val(self.expiry) = now + 1) => last'.posts = 1
            /\ (~incomplete /\ Val(self.expiry) \in {now + 2, now + 3}) => last'.posts = 0
      ]_vars

C1_Witness ==
    /\ last.op = "get_token"
    /\ last.auths = 0
    /\ self.expiry = Some(now + 2)
    /\ last.ret = Some(<<self.key, self.secret>>)

(* C6: an authenticate that fails by a transport error or a non-2xx reply   *)
(* (called directly or by __get_token) leaves hostname, login, password,    *)
(* key, secret and expiry as they were, and returns None to its caller.     *)
C6_FailedLoginKeepsState ==
    [][last'.how \in {"ConnectionError", "HTTPError"} =>
        /\ self' = self
        /\ last'.ret = None
        /\ last'.op = "authenticate" => last'.exc = ""
      ]_vars

C6_Witness ==
    /\ last.op = "authenticate"
    /\ last.how = "HTTPError"
    /\ self.key # None /\ self.secret # None /\ self.expiry # None

(* C7: the held (key, secret, expiry) is absent or comes whole from one     *)
(* login reply, and the stored hostname, login and password are those of    *)
(* the login that produced it.                                              *)
C7_CredentialWhole ==
    \/ self.key = None /\ self.secret = None /\ self.expiry = None
    \/ /\ self.key # None /\ self.secret # None /\ self.expiry # None
       /\ Val(self.key).k = Val(self.secret).s
       /\ origin.expiry = Some(Val(self.key).k)
       /\ origin.who = Some(<<self.hostname, self.login, self.password>>)

(* C8: a pair returned by __get_token belongs to a credential with          *)
(* now + 2h <= expiry at the time of return.                                *)
C8_ReturnedPairUsable ==
    (TokenCall(last) /\ last.exc = "") =>
        /\ self.expiry # None
        /\ now + 2 <= Val(self.expiry)

(* C9: a refresh whose login POST fails, or whose reply misses id,          *)
(* secret_access_key or expiry_date, raises to the caller after that one    *)
(* POST, returns no pair, and the operation sends no signed request.        *)
C9_FailedRefreshPropagates ==
    (TokenCall(last) /\ last.how \notin {"", "complete"}) =>
        /\ last.exc # ""
        /\ last.ret = None
        /\ last.posts = 1
        /\ last.sent = 0

C9_Witness ==
    /\ last.op = "request"
    /\ last.how = "HTTPError"
    /\ last.exc = "TypeError"
    /\ last.sent = 0
    /\ self.key # None

----------------------------------------------------------------------------
(* The export: start_quicktime_export, get_chain, get_asset and the poll    *)
(* loop of get_mo_quicktime_export, lines 505-551.                          *)

Statuses == {"queued", "in progress", "completed", "errored", "timed out"}

(* A job only moves forward: queued, in progress, then one terminal status *)
Rank(st) == CASE st = "queued" -> 0 [] st = "in progress" -> 1 [] OTHER -> 2

AssetIds == {"a1", "a2", "a3"}

(* The ids of the artwork media objects of the assets on the service *)
Artwork(a) == CASE a = "a1" -> <<"mo1", "mo2">>
                [] a = "a2" -> <<"mo3">>
                [] OTHER -> <<>>

Returned(v) == [kind |-> "return", val |-> v]
Raised(e) == [kind |-> "raise", val |-> e]

(* What a signed call can meet before a JSON body is in hand: __get_headers *)
(* raises (failed refresh), requests raises ConnectionError, the reply is   *)
(* a non-2xx one, or the body is not JSON.                                  *)
CallFailures == {"AuthError", "ConnectionError", "HTTPError", "NotJSON"}

(* start_quicktime_export, lines 312-334: no raise_for_status, so the body  *)
(* of any reply is parsed and returned whole; r is unbound in the except    *)
(* branch when requests.post itself raised.                                 *)
start_quicktime_export(out, body) ==
    CASE out = "AuthError" -> Raised("TypeError")                  \* line 322
      [] out = "ConnectionError" -> Raised("UnboundLocalError")    \* line 329
      [] out = "NotJSON" -> Raised("ValueError")                   \* line 327
      [] OTHER -> Returned(Some(body))                             \* line 334

(* str.format renders an int as its digits, a dict as its literal and None  *)
(* as 'None': the three texts differ, whatever the values inside.           *)
IntText(n) == [int |-> n]
DictText(d) == [dict |-> d]
NoneText == [none |-> TRUE]

(* '/chain/{0}'.format(chain_id), line 345: chain_id is what                *)
(* start_quicktime_export returned, the parsed body (line 334) or None.     *)
ChainUrl(c) == <<"/chain/", IF c = None THEN NoneText ELSE DictText(Val(c))>>

(* get_chain, lines 345-358: as start_quicktime_export *)
get_chain(out, body) ==
    CASE out = "AuthError" -> Raised("TypeError")                  \* line 346
      [] out = "ConnectionError" -> Raised("UnboundLocalError")    \* line 353
      [] out = "NotJSON" -> Raised("ValueError")                   \* line 351
      [] OTHER -> Returned(Some(body))                             \* line 358

(* get_asset, lines 94-109: raise_for_status turns a non-2xx reply into a   *)
(* caught HTTPError (None is returned); r is unbound when requests.get      *)
(* itself raised.                                                           *)
get_asset(out, body) ==
    CASE out = "AuthError" -> Raised("TypeError")                  \* line 95
      [] out = "ConnectionError" -> Raised("UnboundLocalError")    \* line 104
      [] out = "HTTPError" -> Returned(None)                       \* lines 103-108
      [] out = "NotJSON" -> Raised("ValueError")                   \* line 102
      [] OTHER -> Returned(Some(body))                             \* line 109

(* The bodies the service sends *)
ExportBodies == {[id |-> Some(7)], [id |-> None]}

ChainBodies ==
    [status : {Some(st) : st \in Statuses \ {"completed"}}, assetID : {None}]
    \cup [status : {Some("completed")}, assetID : {Some(a) : a \in AssetIds} \cup {None}]
    \cup [status : {None}, assetID : {None}]

AssetBody(id) == [artwork |-> IF id = None THEN <<>> ELSE Artwork(Val(id))]

StatusOf(body) == IF body.status = None THEN "" ELSE Val(body.status)

(* The test of lines 537-538 *)
IsFailed_noTimeout(r) ==
    r = None \/ Val(r).status = Some("errored")

IsFailed_onlyNone(r) == r = None

IsFailed(r) ==
    r = None \/ Val(r).status = Some("errored") \/ Val(r).status = Some("timed out")

(* asset.get('media_objects', {}).get('artwork', [])[0].get('id'), lines 550-551 *)
FirstArtwork_last(asset) ==
    IF asset.artwork = <<>> THEN Raised("IndexError")
    ELSE Returned(Some(asset.artwork[Len(asset.artwork)]))

FirstArtwork(asset) ==
    IF asset.artwork = <<>> THEN Raised("IndexError")
    ELSE Returned(Some(asset.artwork[1]))

Event(ev, arg, got) == [ev |-> ev, arg |-> arg, got |-> got]

Count(ev) == Cardinality({i \in 1..Len(x_log) : x_log[i].ev = ev})

ExportStart ==
    /\ x_pc = "start"
    /\ chain_id = None
    /\ res = None
    /\ retry = 0
    /\ job = "queued"
    /\ x_log = <<>>
    /\ x_ret = [kind |-> "", val |-> None]

InitExport == CredInit /\ ExportStart /\ MarkersIdle /\ MoIdle /\ ConcIdle /\ OthersIdle

(* lines 532-534 *)
XSubmit ==
    /\ x_pc = "start"
    /\ \E out \in CallFailures \cup {"ok"}, body \in ExportBodies :
        LET r == start_quicktime_export(out, body)
        IN  /\ x_log' = Append(x_log, Event("start_quicktime_export", None, out))
            /\ IF r.kind = "raise"
               THEN /\ x_pc' = "done"
                    /\ x_ret' = r
                    /\ UNCHANGED chain_id
               ELSE /\ x_pc' = "get_chain"
                    /\ chain_id' = r.val
                    /\ UNCHANGED x_ret
    /\ retry' = 0
    /\ UNCHANGED <<res, job, notExport>>

(* lines 536-545: one get_chain and the branch taken on its result *)
XFetch ==
    /\ x_pc = "get_chain"
    /\ Count("get_chain") < MaxPolls
    /\ \E out \in CallFailures \cup {"ok"}, body \in ChainBodies :
        /\ out = "ok" /\ body.status # None =>
              /\ Rank(Val(body.status)) >= Rank(job)
              /\ Rank(job) = 2 => Val(body.status) = job
        /\ out # "ok" => body = [status |-> None, assetID |-> None]
        /\ LET r == get_chain(out, body)
               got == IF out = "ok" THEN StatusOf(body) ELSE out
           IN  /\ x_log' = Append(x_log, Event("get_chain", ChainUrl(chain_id), got))
               /\ job' = IF out = "ok" /\ body.status # None THEN Val(body.status) ELSE job
               /\ IF r.kind = "raise"
                  THEN /\ x_pc' = "done"
                       /\ x_ret' = r
                       /\ UNCHANGED res
                  ELSE /\ res' = r.val
                       /\ IF IsFailed(r.val)
                          THEN x_pc' = "done" /\ x_ret' = Returned(None)          \* line 539
                          ELSE /\ UNCHANGED x_ret
                               /\ x_pc' = CASE Val(r.val).status = Some("in progress") -> "on_retry"
                                            [] Val(r.val).status = Some("completed") -> "get_asset"
                                            [] OTHER -> "get_chain"               \* back to line 535
    /\ UNCHANGED <<chain_id, retry, notExport>>

(* lines 541-542 *)
XOnRetry ==
    /\ x_pc = "on_retry"
    /\ x_log' = Append(x_log, Event("on_retry", retry, ""))
    /\ retry' = retry + 1
    /\ x_pc' = "sleep"
    /\ UNCHANGED <<chain_id, res, job, x_ret, notExport>>

(* lines 543-544 *)
XSleep ==
    /\ x_pc = "sleep"
    /\ x_log' = Append(x_log, Event("sleep", 1, ""))
    /\ x_pc' = "get_chain"
    /\ UNCHANGED <<chain_id, res, retry, job, x_ret, notExport>>

(* lines 546-551 *)
XAsset ==
    /\ x_pc = "get_asset"
    /\ \E out \in CallFailures \cup {"ok"} :
        LET id == Val(res).assetID                      \* res.get('results', {}).get('assetID')
            r == get_asset(out, AssetBody(id))
        IN  /\ id = None => out # "ok"                  \* there is no asset /asset/None
            /\ x_log' = Append(x_log, Event("get_asset", id, out))
            /\ x_ret' = IF r.kind = "raise" THEN r
                        ELSE IF r.val = None THEN Returned(None)       \* line 549
                        ELSE FirstArtwork(Val(r.val))
    /\ x_pc' = "done"
    /\ UNCHANGED <<chain_id, res, retry, job, notExport>>

NextExport == XSubmit \/ XFetch \/ XOnRetry \/ XSleep \/ XAsset

SpecExport == InitExport /\ [][NextExport]_vars

----------------------------------------------------------------------------
(* Properties of the export poll loop, checked under SpecExport *)

Polls == SelectSeq(x_log, LAMBDA e : e.ev = "get_chain")

PollSteps == SelectSeq(x_log, LAMBDA e : e.ev \in {"get_chain", "on_retry"})

InProgressThenCompleted ==
    /\ Len(Polls) >= 1
    /\ Polls[Len(Polls)].got = "completed"
    /\ \A i \in 1..(Len(Polls) - 1) : Polls[i].got = "in progress"

(* C2: when the status fetches return 'in progress' n times and then        *)
(* 'completed', on_retry has been called exactly n times, with 0 .. n-1 in  *)
(* that order, the i-th call between the i-th and the (i+1)-th fetch, and   *)
(* the call ends with get_asset on the job's assetID, returning the id of   *)
(* the first artwork media object of the asset it obtained.                 *)
C2_RetryThenResult ==
    (x_pc = "done" /\ InProgressThenCompleted) =>
        LET n == Len(Polls) - 1
            end == x_log[Len(x_log)]
        IN  /\ Count("on_retry") = n
            /\ Len(PollSteps) = 2 * n + 1
            /\ \A i \in 1..n : /\ PollSteps[2 * i - 1].ev = "get_chain"
                               /\ PollSteps[2 * i].ev = "on_retry"
                               /\ PollSteps[2 * i].arg = i - 1
            /\ PollSteps[2 * n + 1].ev = "get_chain"
            /\ end.ev = "get_asset"
            /\ end.arg = Val(res).assetID
            /\ Count("get_asset") = 1
            /\ (end.got = "ok" /\ Artwork(Val(end.arg)) # <<>>) =>
                    x_ret = Returned(Some(Artwork(Val(end.arg))[1]))

C2_Witness ==
    /\ x_pc = "done"
    /\ InProgressThenCompleted
    /\ Len(Polls) = 3
    /\ x_ret = Returned(Some("mo1"))

(* C4: a status fetch that returns errored or timed out is the last call    *)
(* get_mo_quicktime_export makes: the call has ended, returning None, with  *)
(* no further get_chain, on_retry or get_asset.                             *)
C4_FailedJobStops ==
    \A i \in 1..Len(x_log) :
        (x_log[i].ev = "get_chain" /\ x_log[i].got \in {"errored", "timed out"}) =>
            /\ i = Len(x_log)
            /\ x_pc = "done"
            /\ x_ret = Returned(None)

C4_Witness ==
    /\ x_pc = "done"
    /\ Len(x_log) > 4
    /\ x_log[Len(x_log)].got = "timed out"
    /\ Count("on_retry") = 1
    /\ Count("get_asset") = 0

(* How the call reported a failure: None returned, or an exception *)
EndedInFailure ==
    /\ x_pc = "done"
    /\ x_ret.kind = "raise" \/ (x_ret.kind = "return" /\ x_ret.val = None)

(* The URL of the status of job n *)
JobUrl(n) == <<"/chain/", IntText(n)>>

(* C13: when start_quicktime_export fails (transport error, or a reply that *)
(* carries no job id) get_mo_quicktime_export ends in failure having made   *)
(* no get_chain, on_retry or get_asset call; when it succeeds, every        *)
(* get_chain addresses /chain/<the job id of the submission reply>.         *)
C13_SubmissionGatesPolling ==
    Len(x_log) >= 1 =>
        LET sub == x_log[1]
            obtained == sub.got = "ok" /\ chain_id # None /\ Val(chain_id).id # None
        IN  /\ ~obtained => EndedInFailure /\ Len(x_log) = 1
            /\ obtained =>
                  \A i \in 1..Len(x_log) :
                      x_log[i].ev = "get_chain" =>
                          x_log[i].arg = JobUrl(Val(Val(chain_id).id))

(* C14: a status fetch that meets a transport failure (network error or a   *)
(* non-2xx reply) is the last call get_mo_quicktime_export makes: the call  *)
(* has ended in failure, with no further get_chain, on_retry or get_asset.  *)
C14_FetchFailureStops ==
    \A i \in 1..Len(x_log) :
        (x_log[i].ev = "get_chain" /\ x_log[i].got \in {"ConnectionError", "HTTPError"}) =>
            /\ i = Len(x_log)
            /\ EndedInFailure

(* C15: between two consecutive status fetches there is exactly one sleep   *)
(* of the fixed interval (1 second), whatever non-terminal status the       *)
(* earlier fetch returned: in progress, queued or none recognised.          *)
C15_OneSleepBetweenFetches ==
    \A i, j \in 1..Len(x_log) :
        ( /\ i < j
          /\ x_log[i].ev = "get_chain"
          /\ x_log[j].ev = "get_chain"
          /\ \A k \in (i + 1)..(j - 1) : x_log[k].ev # "get_chain" ) =>
            Cardinality({k \in (i + 1)..(j - 1) :
                            x_log[k].ev = "sleep" /\ x_log[k].arg = 1}) = 1

----------------------------------------------------------------------------
(* get_markers_per_panels, lines 590-621, and format_panel_for_revision,    *)
(* lines 569-588.                                                           *)

MarkerNames == {"A", "B", "C"}

(* Ascending sequences of distinct starts: the keys of OrderedDict(sorted(..)) *)
RECURSIVE Ascending(_, _)
Ascending(lo, len) ==
    IF len = 0 THEN {<<>>}
    ELSE UNION {{<<k>> \o rest : rest \in Ascending(k + 1, len - 1)} : k \in lo..MaxStart}

RECURSIVE SeqsOf(_, _)
SeqsOf(S, len) ==
    IF len = 0 THEN {<<>>}
    ELSE {<<x>> \o rest : x \in S, rest \in SeqsOf(S, len - 1)}

(* What get_markers returns (lines 563-567): start -> name, sorted by start *)
MarkerLists ==
    UNION {{[i \in 1..len |-> <<ks[i], ns[i]>>] : ks \in Ascending(0, len), ns \in SeqsOf(MarkerNames, len)}
           : len \in 0..MaxMarkers}

(* A panel of the sequence revision; only the duration varies *)
Panel(i, d) ==
    [panel_id |-> 100 + i, revision_number |-> 1, dialogue |-> "text", duration |-> d,
     asset |-> [asset_id |-> 200 + i]]

PanelLists ==
    UNION {{[i \in 1..len |-> Panel(i - 1, ds[i])] : ds \in SeqsOf(0..MaxDur, len)}
           : len \in 0..MaxPanels}

format_panel_for_revision_onebased(panel, pos) ==
    [dialogue |-> panel.dialogue,
     duration |-> panel.duration,
     id |-> panel.panel_id,
     revision_number |-> panel.revision_number,
     asset |-> panel.asset,
     pos |-> pos + 1]

(* lines 581-588; panel.get(k) is the value under k, None when k is missing *)
format_panel_for_revision(panel, pos) ==
    [dialogue |-> panel.dialogue,
     duration |-> panel.duration,
     id |-> panel.panel_id,
     revision_number |-> panel.revision_number,
     asset |-> panel.asset,
     pos |-> pos]

(* list subscript with Python's negative indices; the caller checks InRange *)
InRange(seq, k) == -Len(seq) <= k /\ k < Len(seq)
PyIndex(seq, k) == IF k >= 0 THEN seq[k + 1] ELSE seq[Len(seq) + k + 1]

markers_keys == [i \in 1..Len(markers) |-> markers[i][1]]           \* line 603
MarkerName(k) == markers[CHOOSE i \in 1..Len(markers) : markers[i][1] = k][2]    \* markers[k]

Put(d, name, list) == [n \in DOMAIN d \cup {name} |-> IF n = name THEN list ELSE d[n]]

InitMarkers ==
    /\ CredInit /\ ExportIdle /\ MoIdle /\ ConcIdle /\ OthersIdle
    /\ markers \in MarkerLists
    /\ panels \in PanelLists
    /\ m_pc = "loop"
    /\ m_i = 0
    /\ panel_in = 0
    /\ marker_i = 0
    /\ panels_per_markers = EmptyDict

InLoop == m_pc = "loop" /\ m_i < Len(panels)

ThisPanel == panels[m_i + 1]

Formatted_timeline == format_panel_for_revision(ThisPanel, panel_in)

Formatted == format_panel_for_revision(ThisPanel, m_i)          \* (p, i) of enumerate(panels)

Advance ==                          \* line 620 and the next iteration
    /\ panel_in' = panel_in + ThisPanel.duration
    /\ m_i' = m_i + 1

(* line 606 with no marker at all: markers_keys[0] raises IndexError *)
MNoMarker ==
    /\ InLoop
    /\ ~InRange(markers_keys, marker_i)
    /\ m_pc' = "IndexError"
    /\ UNCHANGED <<markers, panels, m_i, panel_in, marker_i, panels_per_markers, notMarkers>>

(* lines 606-611: the panel starts on the awaited marker *)
MAtMarker ==
    /\ InLoop
    /\ InRange(markers_keys, marker_i)
    /\ PyIndex(markers_keys, marker_i) = panel_in
    /\ panels_per_markers' =
           Put(panels_per_markers, MarkerName(PyIndex(markers_keys, marker_i)), <<Formatted>>)
    /\ marker_i' = IF Len(markers_keys) > marker_i + 1 THEN marker_i + 1 ELSE marker_i
    /\ Advance
    /\ UNCHANGED <<markers, panels, m_pc, notMarkers>>

(* lines 612-614: the awaited marker is still ahead *)
MBeforeMarker ==
    /\ InLoop
    /\ InRange(markers_keys, marker_i)
    /\ PyIndex(markers_keys, marker_i) > panel_in
    /\ LET name == MarkerName(PyIndex(markers_keys, marker_i - 1))
       IN  IF name \in DOMAIN panels_per_markers
           THEN /\ panels_per_markers' =
                       Put(panels_per_markers, name, Append(panels_per_markers[name], Formatted))
                /\ Advance
                /\ UNCHANGED m_pc
           ELSE /\ m_pc' = "KeyError"
                /\ UNCHANGED <<m_i, panel_in, panels_per_markers>>
    /\ UNCHANGED <<markers, panels, marker_i, notMarkers>>

(* lines 615-619: past the last marker *)
MAfterLast ==
    /\ InLoop
    /\ InRange(markers_keys, marker_i)
    /\ PyIndex(markers_keys, marker_i) < panel_in
    /\ Len(markers_keys) - 1 = marker_i
    /\ LET name == MarkerName(PyIndex(markers_keys, marker_i))
           old == IF name \in DOMAIN panels_per_markers THEN panels_per_markers[name] ELSE <<>>
       IN  panels_per_markers' = Put(panels_per_markers, name, Append(old, Formatted))
    /\ Advance
    /\ UNCHANGED <<markers, panels, m_pc, marker_i, notMarkers>>

(* no branch of lines 606-619 applies: the awaited marker lies behind and   *)
(* is not the last one; only line 620 runs                                  *)
MNoBranch ==
    /\ InLoop
    /\ InRange(markers_keys, marker_i)
    /\ PyIndex(markers_keys, marker_i) < panel_in
    /\ Len(markers_keys) - 1 # marker_i
    /\ Advance
    /\ UNCHANGED <<markers, panels, m_pc, marker_i, panels_per_markers, notMarkers>>

(* line 621 *)
MReturn ==
    /\ m_pc = "loop"
    /\ m_i = Len(panels)
    /\ m_pc' = "returned"
    /\ UNCHANGED <<markers, panels, m_i, panel_in, marker_i, panels_per_markers, notMarkers>>

NextMarkers == MNoMarker \/ MAtMarker \/ MBeforeMarker \/ MAfterLast \/ MNoBranch \/ MReturn

SpecMarkers == InitMarkers /\ [][NextMarkers]_vars

(* Properties of get_markers_per_panels, checked under SpecMarkers *)

DistinctNames == \A i, j \in 1..Len(markers) : markers[i][2] = markers[j][2] => i = j

(* cumulative duration before panel number i (0-based) *)
RECURSIVE PositionOf(_)
PositionOf(i) == IF i = 0 THEN 0 ELSE PositionOf(i - 1) + panels[i].duration

(* the marker with the greatest start <= p *)
FloorMarker(p) ==
    CHOOSE i \in 1..Len(markers) :
        /\ markers[i][1] <= p
        /\ \A j \in 1..Len(markers) : markers[j][1] <= p => markers[j][1] <= markers[i][1]

InGroup(name, i) ==
    /\ name \in DOMAIN panels_per_markers
    /\ \E k \in 1..Len(panels_per_markers[name]) : panels_per_markers[name][k].pos = i

(* C3: with distinct marker names, every panel at or after the first        *)
(* marker's start is, in the mapping returned, in the group of the marker   *)
(* with the greatest start <= its position, and in no other group.          *)
C3_FloorAssignment ==
    (m_pc = "returned" /\ DistinctNames /\ Len(markers) > 0) =>
        \A i \in 0..(Len(panels) - 1) :
            PositionOf(i) >= markers[1][1] =>
                \A j \in 1..Len(markers) :
                    InGroup(markers[j][2], i) <=> j = FloorMarker(PositionOf(i))

(* C16: when the first marker starts after position 0, the panels before it *)
(* are put in no group, and the call still completes (raises nothing) and   *)
(* groups every panel at or after the first marker's start.                 *)
C16_LeadingPanelsSkipped ==
    (Len(markers) >= 1 /\ markers[1][1] > 0 /\ Len(panels) >= 1) =>
        /\ m_pc \in {"loop", "returned"}
        /\ m_pc = "returned" =>
              \A i \in 0..(Len(panels) - 1) :
                  (PositionOf(i) >= markers[1][1]) <=>
                      (\E j \in 1..Len(markers) : InGroup(markers[j][2], i))

(* every marker starts on the start of some panel *)
MarkersOnPanels ==
    \A j \in 1..Len(markers) : \E i \in 0..(Len(panels) - 1) : PositionOf(i) = markers[j][1]

(* C17: with the same shot name on two markers separated by a marker of     *)
(* another name (every marker starting on a panel), the group of that name  *)
(* in the mapping returned holds the panels of both occurrences: those of   *)
(* the later one were appended to those of the earlier one.                 *)
C17_RepeatedNameAccumulates ==
    (m_pc = "returned" /\ MarkersOnPanels) =>
        \A a, b, c \in 1..Len(markers) :
            (a < b /\ b < c /\ markers[a][2] = markers[c][2] /\ markers[b][2] # markers[a][2]) =>
                \A i \in 0..(Len(panels) - 1) :
                    (PositionOf(i) >= markers[1][1] /\ FloorMarker(PositionOf(i)) \in {a, c}) =>
                        InGroup(markers[a][2], i)

(* C18: in the mapping returned, the pos of every entry is the 0-based      *)
(* index in the panels argument of the panel the entry was made from, no    *)
(* index is in two groups or twice in one group, and inside every group     *)
(* the entries are in strictly ascending pos.                               *)
C18_PosIsOriginalIndex ==
    m_pc = "returned" =>
        /\ \A n \in DOMAIN panels_per_markers :
              LET g == panels_per_markers[n]
              IN  /\ \A k \in 1..Len(g) :
                        /\ g[k].pos \in 0..(Len(panels) - 1)
                        /\ g[k] = format_panel_for_revision(panels[g[k].pos + 1], g[k].pos)
                  /\ \A k \in 1..(Len(g) - 1) : g[k].pos < g[k + 1].pos
        /\ \A n1, n2 \in DOMAIN panels_per_markers :
              n1 # n2 =>
                  \A k1 \in 1..Len(panels_per_markers[n1]), k2 \in 1..Len(panels_per_markers[n2]) :
                      panels_per_markers[n1][k1].pos # panels_per_markers[n2][k2].pos

(* a call that returned two groups, one of them of two panels, the second   *)
(* panel at a timeline position other than its index                        *)
C18_Witness ==
    /\ m_pc = "returned"
    /\ Cardinality(DOMAIN panels_per_markers) = 2
    /\ \E n \in DOMAIN panels_per_markers :
          /\ Len(panels_per_markers[n]) = 2
          /\ panels_per_markers[n][2].pos # PositionOf(panels_per_markers[n][2].pos)

----------------------------------------------------------------------------
(* mo_per_shots, lines 455-503 *)

ShotNames == <<"A", "B", "C", "D", "E">>

RECURSIVE SumTo(_, _)
SumTo(sizes, k) == IF k = 0 THEN 0 ELSE SumTo(sizes, k - 1) + sizes[k]

(* The mapping get_markers_per_panels returns for groups of the given sizes *)
Groups(sizes) ==
    [k \in 1..Len(sizes) |->
        <<ShotNames[k],
          [j \in 1..sizes[k] |->
              LET i == SumTo(sizes, k - 1) + j - 1
              IN  format_panel_for_revision(Panel(i, 1), i)]>>]

MoInputs == UNION {{Groups(sizes) : sizes \in SeqsOf(1..MaxGroup, n)} : n \in 1..MaxShots}

(* The assets the service may hold: complete, or without an artwork or      *)
(* thumbnail list, or with an empty artwork list                            *)
AssetShapes == {"full", "no artwork", "empty artwork", "no thumbnail"}

MoAsset(shape, id) ==
    [artwork |-> IF shape = "no artwork" THEN None
                 ELSE IF shape = "empty artwork" THEN Some(<<>>)
                 ELSE Some(<<[id |-> <<"art", id>>, name |-> "artwork"]>>),
     thumbnail |-> IF shape = "no thumbnail" THEN None
                   ELSE Some(<<[id |-> <<"thumb", id>>, name |-> "thumbnail"]>>)]

(* lines 488-494 and 495-502: the entry recorded for panel p *)
MoEntry(p, mo) ==
    [name |-> mo.name, id |-> p.id, revision_number |-> p.revision_number, pos |-> p.pos,
     mo |-> mo.id]

MoOnNone_partial(acc) == Returned(<<Some(acc), TRUE>>)

(* lines 485-486: get_asset returned None *)
MoOnNone(acc) == Returned(<<None, FALSE>>)

InitMo ==
    /\ CredInit /\ ExportIdle /\ MarkersIdle /\ ConcIdle /\ OthersIdle
    /\ mo_in \in MoInputs
    /\ mo_pc = "shot"
    /\ mo_s = 0
    /\ mo_p = 0
    /\ mo_acc = EmptyDict
    /\ mo_log = <<>>
    /\ mo_ret = [kind |-> "", val |-> None]

(* lines 479-481 *)
MoShot ==
    /\ mo_pc = "shot"
    /\ mo_s < Len(mo_in)
    /\ mo_acc' = Put(mo_acc, mo_in[mo_s + 1][1], [artwork |-> <<>>, thumbnails |-> <<>>])
    /\ mo_s' = mo_s + 1
    /\ mo_p' = 0
    /\ mo_pc' = "panel"
    /\ UNCHANGED <<mo_in, mo_log, mo_ret, notMo>>

(* lines 482-502, one panel *)
MoLookup ==
    /\ mo_pc = "panel"
    /\ mo_p < Len(mo_in[mo_s][2])
    /\ \E out \in CallFailures \cup {"ok"}, shape \in AssetShapes :
        LET shot == mo_in[mo_s][1]
            p == mo_in[mo_s][2][mo_p + 1]
            r == get_asset(out, MoAsset(shape, p.asset.asset_id))
        IN  /\ out # "ok" => shape = "full"
            /\ mo_log' = Append(mo_log, IF out = "ok" THEN shape ELSE out)
            /\ IF r.kind = "raise"
               THEN /\ mo_ret' = r
                    /\ mo_pc' = "done"
                    /\ UNCHANGED <<mo_acc, mo_p>>
               ELSE IF r.val = None
               THEN /\ mo_ret' = MoOnNone(mo_acc)
                    /\ mo_pc' = "done"
                    /\ UNCHANGED <<mo_acc, mo_p>>
               ELSE LET asset == Val(r.val)
                    IN  IF asset.artwork = None                         \* line 487: None[0]
                        THEN /\ mo_ret' = Raised("TypeError")
                             /\ mo_pc' = "done"
                             /\ UNCHANGED <<mo_acc, mo_p>>
                        ELSE IF Val(asset.artwork) = <<>>               \* line 487: [][0]
                        THEN /\ mo_ret' = Raised("IndexError")
                             /\ mo_pc' = "done"
                             /\ UNCHANGED <<mo_acc, mo_p>>
                        ELSE
                        LET art == MoEntry(p, Val(asset.artwork)[1])
                            a1 == [mo_acc EXCEPT ![shot].artwork = Append(@, art)]
                        IN  IF asset.thumbnail = None                   \* line 496: None[0]
                            THEN /\ mo_ret' = Raised("TypeError")
                                 /\ mo_pc' = "done"
                                 /\ mo_acc' = a1
                                 /\ UNCHANGED mo_p
                            ELSE /\ mo_acc' = [a1 EXCEPT ![shot].thumbnails =
                                                  Append(@, MoEntry(p, Val(asset.thumbnail)[1]))]
                                 /\ mo_p' = mo_p + 1
                                 /\ UNCHANGED <<mo_ret, mo_pc>>
    /\ UNCHANGED <<mo_in, mo_s, notMo>>

(* the panels of the shot are exhausted: back to line 479 *)
MoShotEnd ==
    /\ mo_pc = "panel"
    /\ mo_p = Len(mo_in[mo_s][2])
    /\ mo_pc' = "shot"
    /\ UNCHANGED <<mo_in, mo_s, mo_p, mo_acc, mo_log, mo_ret, notMo>>

(* line 503 *)
MoReturn ==
    /\ mo_pc = "shot"
    /\ mo_s = Len(mo_in)
    /\ mo_ret' = Returned(<<Some(mo_acc), TRUE>>)
    /\ mo_pc' = "done"
    /\ UNCHANGED <<mo_in, mo_s, mo_p, mo_acc, mo_log, notMo>>

NextMo == MoShot \/ MoLookup \/ MoShotEnd \/ MoReturn

SpecMo == InitMo /\ [][NextMo]_vars

(* Properties of mo_per_shots, checked under SpecMo *)

LookupFailed == \E i \in 1..Len(mo_log) : mo_log[i] \in CallFailures

(* C5: when a get_asset of the call has failed (returned None or raised),   *)
(* it was the last lookup made, and mo_per_shots ends with an exception or  *)
(* with (None, False): it returns no mapping, whatever was gathered before. *)
C5_AllOrNothing ==
    LookupFailed =>
        /\ mo_log[Len(mo_log)] \in CallFailures
        /\ \A i \in 1..(Len(mo_log) - 1) : mo_log[i] \notin CallFailures
        /\ mo_pc = "done"
        /\ mo_ret.kind = "raise" \/ mo_ret = Returned(<<None, FALSE>>)

C5_Witness ==
    /\ Len(mo_log) = 3
    /\ mo_log[3] = "HTTPError"
    /\ mo_s = 2
    /\ Len(mo_acc[mo_in[1][1]].artwork) > 0
    /\ mo_ret = Returned(<<None, FALSE>>)

----------------------------------------------------------------------------
(* Two threads call __get_token (through __get_headers) on one flix object. *)
(* The code takes no lock (lines 623-642, 719-720), so the threads          *)
(* interleave between the statements of __get_token and authenticate; each  *)
(* statement is one step.                                                   *)

Threads == {1, 2}

NoLocals == [stale |-> FALSE, during |-> FALSE, args |-> None, response |-> None,
             ret |-> [kind |-> "", val |-> None]]

(* The login endpoint's answers explored here: a failure, or a complete     *)
(* reply with the longest lifetime (fresh once stored)                      *)
ConcOutcomes ==
    {out \in LoginOutcomes :
        /\ out.frac = ""
        /\ out.kind \in {"HTTPError", "reply"}
        /\ out.kind = "reply" => (out.missing = "" /\ out.ttl = MaxTTL)}

(* The object has been logged in once; the credential of that login has     *)
(* any of the expiries the endpoint issues                                  *)
InitConc ==
    /\ \E a \in Accounts, out \in LoginOutcomes :
          /\ out.kind = "reply" /\ out.missing = "" /\ out.frac = ""
          /\ LET r == authenticate(Cleared, NoOrigin, Some(a[1]), Some(a[2]), Some(a[3]), out, 1, 0)
             IN  /\ self = r.obj
                 /\ origin = r.org
                 /\ last = Call("authenticate", r, 0)
    /\ now = 0
    /\ posts = 1
    /\ c_pc = [t \in Threads |-> "check"]
    /\ c_loc = [t \in Threads |-> NoLocals]
    /\ ExportIdle /\ MarkersIdle /\ MoIdle /\ OthersIdle

Goto(t, pc) == c_pc' = [c_pc EXCEPT ![t] = pc]

(* history: the other thread has not left __get_token yet *)
OtherRunning(t) == \A u \in Threads \ {t} : c_pc[u] # "done"

(* lines 630-631 *)
CCheck(t) ==
    /\ c_pc[t] = "check"
    /\ IF NeedsRefresh(self, now)
       THEN /\ Goto(t, "post")
            /\ c_loc' = [c_loc EXCEPT ![t].stale = TRUE, ![t].during = OtherRunning(t)]
       ELSE /\ Goto(t, "return")
            /\ c_loc' = [c_loc EXCEPT ![t].during = OtherRunning(t)]
    /\ UNCHANGED <<credVars, notConc>>

(* lines 632-633 and 39-49: the arguments are read and the POST is made *)
CPost(t) ==
    /\ c_pc[t] = "post"
    /\ posts' = posts + 1
    /\ \E out \in ConcOutcomes :
        IF out.kind = "reply"
        THEN /\ Goto(t, "store_login")
             /\ c_loc' = [c_loc EXCEPT ![t].args = Some(<<self.hostname, self.login, self.password>>),
                                       ![t].response = Some(Response(out, posts + 1, now))]
        ELSE /\ Goto(t, "done")                      \* lines 53-55, then line 634 raises
             /\ c_loc' = [c_loc EXCEPT ![t].ret = Raised("TypeError")]
    /\ UNCHANGED <<self, origin, now, last, notConc>>

(* lines 50-52 *)
CStoreLogin(t) ==
    /\ c_pc[t] = "store_login"
    /\ LET a == Val(c_loc[t].args)
       IN  self' = [self EXCEPT !.hostname = a[1], !.login = a[2], !.password = a[3]]
    /\ Goto(t, "store_key")
    /\ UNCHANGED <<origin, now, posts, last, c_loc, notConc>>

(* line 57 *)
CStoreKey(t) ==
    /\ c_pc[t] = "store_key"
    /\ self' = [self EXCEPT !.key = Some(Val(c_loc[t].response)["id"])]
    /\ origin' = [origin EXCEPT !.who = c_loc[t].args]
    /\ Goto(t, "store_secret")
    /\ UNCHANGED <<now, posts, last, c_loc, notConc>>

(* line 58 *)
CStoreSecret(t) ==
    /\ c_pc[t] = "store_secret"
    /\ self' = [self EXCEPT !.secret = Some(Val(c_loc[t].response)["secret_access_key"])]
    /\ Goto(t, "store_expiry")
    /\ UNCHANGED <<origin, now, posts, last, c_loc, notConc>>

(* lines 59-61 *)
CStoreExpiry(t) ==
    /\ c_pc[t] = "store_expiry"
    /\ self' = [self EXCEPT !.expiry = Some(ParseExpiry(Val(c_loc[t].response)["expiry_date"]))]
    /\ origin' = [origin EXCEPT !.expiry = Some(Val(c_loc[t].response)["id"].k)]
    /\ Goto(t, "set_key")
    /\ UNCHANGED <<now, posts, last, c_loc, notConc>>

(* lines 634 and 638 *)
CSetKey(t) ==
    /\ c_pc[t] = "set_key"
    /\ self' = [self EXCEPT !.key = Some(Val(c_loc[t].response)["id"])]
    /\ Goto(t, "set_secret")
    /\ UNCHANGED <<origin, now, posts, last, c_loc, notConc>>

(* lines 635 and 639 *)
CSetSecret(t) ==
    /\ c_pc[t] = "set_secret"
    /\ self' = [self EXCEPT !.secret = Some(Val(c_loc[t].response)["secret_access_key"])]
    /\ Goto(t, "set_expiry")
    /\ UNCHANGED <<origin, now, posts, last, c_loc, notConc>>

(* lines 636-637 and 640-641 *)
CSetExpiry(t) ==
    /\ c_pc[t] = "set_expiry"
    /\ self' = [self EXCEPT !.expiry = Some(ParseExpiry(Val(c_loc[t].response)["expiry_date"]))]
    /\ origin' = [origin EXCEPT !.expiry = Some(Val(c_loc[t].response)["id"].k)]
    /\ Goto(t, "return")
    /\ UNCHANGED <<now, posts, last, c_loc, notConc>>

(* line 642 *)
CReturn(t) ==
    /\ c_pc[t] = "return"
    /\ c_loc' = [c_loc EXCEPT ![t].ret = Returned(Some(<<self.key, self.secret>>))]
    /\ Goto(t, "done")
    /\ UNCHANGED <<credVars, notConc>>

NextConc ==
    \E t \in Threads :
        \/ CCheck(t) \/ CPost(t) \/ CStoreLogin(t) \/ CStoreKey(t) \/ CStoreSecret(t)
        \/ CStoreExpiry(t) \/ CSetKey(t) \/ CSetSecret(t) \/ CSetExpiry(t) \/ CReturn(t)

SpecConc == InitConc /\ [][NextConc]_vars

(* Properties of concurrent refresh, checked under SpecConc *)

BothSawStale == \A t \in Threads : c_loc[t].stale /\ c_loc[t].during

(* C10: when both threads found the credential stale, each while the other  *)
(* was still inside __get_token, at most one login POST is issued for the   *)
(* refresh, and the threads that return a pair return the same one.         *)
C10_SingleFlight ==
    BothSawStale =>
        /\ posts <= 2
        /\ (\A t \in Threads : c_pc[t] = "done" /\ c_loc[t].ret.kind = "return") =>
               c_loc[1].ret = c_loc[2].ret

----------------------------------------------------------------------------
(* The signer: __fn_sign, lines 644-702.                                    *)
(*                                                                          *)
(* A text is a record naming how it was made, so that texts made in         *)
(* different ways differ: a literal, the hex MD5 digest of some bytes, the  *)
(* hex encoding of some bytes, the UTF-8 bytes of a JSON serialisation, a   *)
(* formatted time.  MD5, HMAC and base64 are taken to be injective.         *)

Text(str) == [text |-> str]
NL == Text("\n")
Md5Hex(bytes) == [md5 |-> bytes]                 \* hashlib.md5(bytes).hexdigest()
Hexlify(items) == [hex |-> items]                \* binascii.hexlify(content)
JsonUtf8(items) == [json |-> items]              \* json.dumps(content).encode('utf-8')

(* A Python value handed over as content: its type and what it holds *)
PyValue(type, items) == [type |-> type, items |-> items]

Contents ==
    {PyValue("NoneType", <<>>),
     PyValue("str", <<>>), PyValue("str", <<"a", "b", "c">>),
     PyValue("bytes", <<>>), PyValue("bytes", <<"a", "b">>),
     PyValue("dict", <<>>), PyValue("dict", <<"include_dialogue", "panel_revisions">>),
     PyValue("list", <<"x">>)}

(* `if content:`, line 677: None and empty strings, bytes, dicts and lists are false *)
Truthy(content) == content.type # "NoneType" /\ content.items # <<>>

(* A datetime: whole seconds and the sub-second part, in tenths *)
Instants == [sec : 0..MaxUtc, frac : {0, 5}]

(* dt.isoformat().split('.')[0] + 'Z', line 691: the sub-second part is cut off *)
IsoZ(dt) == [iso |-> dt.sec, suffix |-> "Z"]

(* http_method.upper(), line 675 *)
Upper(m) == CASE m = "get" -> "GET" [] m = "post" -> "POST" [] OTHER -> m

(* A URL: the path and the query string after '?' ("" when there is none) *)
Urls == [path : {"/show/1/sequences"}, query : {"", "page=2"}]

(* url.split('?')[0], lines 692-693 *)
UrlPath(url) == url.path

(* lines 676-685: hashlib.md5 refuses a str ("Strings must be encoded       *)
(* before hashing"); a truthy value of any other type leaves content_md5 '' *)
content_md5(content) ==
    IF ~Truthy(content) THEN Returned(Text(""))
    ELSE CASE content.type = "str" -> Raised("TypeError")                           \* line 679
           [] content.type = "bytes" -> Returned(Md5Hex(Hexlify(content.items)))    \* lines 681-682
           [] content.type = "dict" -> Returned(Md5Hex(JsonUtf8(content.items)))    \* lines 684-685
           [] OTHER -> Returned(Text(""))

(* lines 675-694: the string that is signed, as the sequence of its pieces *)
raw_string(url, content, http_method, content_type, dt) ==
    LET md5 == content_md5(content)
    IN  IF md5.kind = "raise" THEN md5
        ELSE Returned(<<Text(Upper(http_method)), NL>>
                      \o (IF md5.val # Text("")
                          THEN <<md5.val, NL, Text(content_type), NL>>       \* lines 687-688
                          ELSE <<NL, NL>>)                                   \* line 690
                      \o <<IsoZ(dt), NL>>
                      \o <<Text(UrlPath(url))>>)

(* The secret that is the empty string *)
EmptySecret == [s |-> 0]

(* __fn_sign, lines 644-702 *)
fn_sign(access_key_id, secret_access_key, url, content, http_method, content_type, dt) ==
    LET raw == raw_string(url, content, http_method, content_type, dt)
    IN  IF raw.kind = "raise" THEN raw
        ELSE IF secret_access_key = EmptySecret
        THEN Raised("ValueError")                                            \* lines 695-696
        ELSE Returned([scheme |-> "FNAUTH ",
                       key |-> access_key_id,
                       digest |-> [hmac |-> <<secret_access_key, raw.val>>]])

SignInputs ==
    [access_key_id : {[k |-> 1]},
     secret_access_key : {EmptySecret, [s |-> 1]},
     url : Urls,
     content : Contents,
     http_method : {"get", "POST"},
     content_type : {"application/json"},
     dt : Instants]

InitSign ==
    /\ CredInit /\ ExportIdle /\ MarkersIdle /\ MoIdle /\ ConcIdle /\ FormatIdle /\ GateIdle
    /\ s_in \in {Some(a) : a \in SignInputs}
    /\ s_out = None

SSign ==
    /\ s_in # None
    /\ s_out = None
    /\ LET a == Val(s_in)
       IN  s_out' = Some(fn_sign(a.access_key_id, a.secret_access_key, a.url, a.content,
                                 a.http_method, a.content_type, a.dt))
    /\ UNCHANGED <<s_in, notSign>>

NextSign == SSign

SpecSign == InitSign /\ [][NextSign]_vars

(* Properties of __fn_sign, checked under SpecSign *)

(* C19: for content that is None, a string, bytes or a dict, and a secret   *)
(* that is not empty, the signed string is: the method, a newline; then,    *)
(* exactly when the content is not empty, a content hash, a newline, the    *)
(* content type and a newline, and exactly when it is empty two bare        *)
(* newlines; then the timestamp, a newline and the URL without its query.   *)
C19_ContentLines ==
    (s_out # None /\ Val(s_in).content.type \in {"NoneType", "str", "bytes", "dict"}
                  /\ Val(s_in).secret_access_key # EmptySecret) =>
        LET a == Val(s_in)
            r == Val(s_out)
            head == <<Text(Upper(a.http_method)), NL>>
            tail == <<IsoZ(a.dt), NL, Text(a.url.path)>>
        IN  /\ r.kind = "return"
            /\ LET raw == r.val.digest.hmac[2]
               IN  IF a.content.items = <<>>
                   THEN raw = head \o <<NL, NL>> \o tail
                   ELSE /\ Len(raw) = 9
                        /\ SubSeq(raw, 1, 2) = head
                        /\ DOMAIN raw[3] = {"md5"}
                        /\ SubSeq(raw, 4, 6) = <<NL, Text(a.content_type), NL>>
                        /\ SubSeq(raw, 7, 9) = tail

----------------------------------------------------------------------------
(* format_panel_for_revision on its own, lines 569-588.                     *)

(* Panels as Flix sends them: every field an optional value, None standing  *)
(* for a missing key (dict.get).  A panel carries its own 'id' next to      *)
(* 'panel_id'.                                                              *)
SourcePanels ==
    [dialogue : {None, Some("text")},
     duration : {Some(0), Some(MaxDur)},
     panel_id : {Some(100), Some(101)},
     id : {None, Some(100), Some(900)},
     revision_number : {None, Some(1)},
     asset : {None, Some([asset_id |-> 200])}]

InitFormat ==
    /\ CredInit /\ ExportIdle /\ MarkersIdle /\ MoIdle /\ ConcIdle /\ SignIdle /\ GateIdle
    /\ f_panel \in {Some(p) : p \in SourcePanels}
    /\ f_pos \in 0..MaxPos
    /\ f_out = None

FFormat ==
    /\ f_panel # None
    /\ f_out = None
    /\ f_out' = Some(format_panel_for_revision(Val(f_panel), f_pos))
    /\ UNCHANGED <<f_panel, f_pos, notFormat>>

NextFormat == FFormat

SpecFormat == InitFormat /\ [][NextFormat]_vars

(* Properties of format_panel_for_revision, checked under SpecFormat *)

(* C20 as stated: the result has the given pos, and its dialogue, duration, *)
(* id, revision_number and asset equal the source panel's field of the      *)
(* same name.                                                               *)
C20_SameNamedFields ==
    f_out # None =>
        LET panel == Val(f_panel)
            out == Val(f_out)
        IN  /\ out.pos = f_pos
            /\ out.dialogue = panel.dialogue
            /\ out.duration = panel.duration
            /\ out.id = panel.id
            /\ out.revision_number = panel.revision_number
            /\ out.asset = panel.asset

(* C20 amended: the result has exactly the six fields, pos is the given     *)
(* pos, id is the source panel's panel_id (the source's own id is not       *)
(* read), and dialogue, duration, revision_number and asset equal the       *)
(* source panel's field of the same name.                                   *)
C20_IdFromPanelId ==
    f_out # None =>
        LET panel == Val(f_panel)
            out == Val(f_out)
        IN  /\ DOMAIN out = {"dialogue", "duration", "id", "revision_number", "asset", "pos"}
            /\ out.pos = f_pos
            /\ out.id = panel.panel_id
            /\ out.dialogue = panel.dialogue
            /\ out.duration = panel.duration
            /\ out.revision_number = panel.revision_number
            /\ out.asset = panel.asset

(* a panel whose id differs from its panel_id, formatted at a pos other than 0 *)
C20_Witness ==
    /\ f_out # None
    /\ Val(f_panel).id = Some(900)
    /\ Val(f_panel).panel_id = Some(101)
    /\ f_pos = MaxPos
    /\ Val(f_out).id = Some(101)

----------------------------------------------------------------------------
(* One operation of the client up to the request it sends: __get_headers,   *)
(* lines 704-732, and the first lines of every method that calls it.        *)

(* The methods that send a request other than the login *)
DomainOps ==
    {"get_shows", "get_asset", "get_episodes", "get_sequences", "get_panels", "get_dialogues",
     "get_sequence_rev", "download_media_object", "start_quicktime_export", "get_chain",
     "new_sequence_revision", "new_panel"}

Operations == DomainOps \cup {"authenticate"}

Signed_butDownload(op) == op \in DomainOps \ {"download_media_object"}

(* Whether the method takes its headers from self.__get_headers (lines 69,  *)
(* 95, 121, 152, 183, 214, 245, 272, 322, 346, 394, 431); authenticate      *)
(* builds its own (lines 39-44).                                            *)
Signed(op) == op \in DomainOps

(* The method argument of __get_headers, which is also the requests call made *)
OpMethod(op) ==
    IF op \in {"start_quicktime_export", "new_sequence_revision", "new_panel"}
    THEN "POST" ELSE "GET"

(* The url argument of __get_headers, which is also the URL requested *)
OpUrl(op) ==
    [path |-> CASE op = "get_shows" -> "/shows"
                [] op = "get_asset" -> "/asset/{0}"
                [] op = "get_episodes" -> "/show/{0}/episodes"
                [] op = "get_sequences" -> "/show/{0}/sequences"
                [] op = "get_panels" -> "/show/{0}/sequence/{1}/revision/{2}/panels"
                [] op = "get_dialogues" -> "/show/{0}/sequence/{1}/revision/{2}/dialogues"
                [] op = "get_sequence_rev" -> "/show/{0}/sequence/{1}/revision/{2}"
                [] op = "download_media_object" -> "/file/{0}/data"
                [] op = "start_quicktime_export" -> "/show/{0}/sequence/{1}/revision/{2}/export/quicktime"
                [] op = "get_chain" -> "/chain/{0}"
                [] op = "new_sequence_revision" -> "/show/{0}/sequence/{1}/revision"
                [] op = "new_panel" -> "/show/{0}/sequence/{1}/panel"
                [] OTHER -> "/authenticate",
     query |-> ""]

(* The content argument of __get_headers, which is also the body sent *)
OpContent(op) ==
    CASE op = "start_quicktime_export" -> PyValue("dict", <<"include_dialogue", "panel_revisions">>)
      [] op = "new_sequence_revision" ->
            PyValue("dict", <<"comment", "imported", "meta_data", "revisioned_panels">>)
      [] op = "new_panel" -> PyValue("dict", <<"duration">>)
      [] OTHER -> PyValue("NoneType", <<>>)

Rfc1123_rounded(dt) == [rfc |-> IF dt.frac >= 5 THEN dt.sec + 1 ELSE dt.sec, zone |-> "GMT"]

(* dt.strftime('%a, %d %b %Y %H:%M:%S GMT'), line 731: written to the       *)
(* second, the sub-second part left out                                     *)
Rfc1123(dt) == [rfc |-> dt.sec, zone |-> "GMT"]

(* The dict returned by __get_headers, lines 721-732 *)
get_headers(key, secret, content, url, method, dt) ==
    LET auth == fn_sign(key, secret, url, content, method, "application/json", dt)
    IN  IF auth.kind = "raise" THEN auth
        ELSE Returned([Authorization |-> auth.val,
                       ContentType |-> "application/json",
                       Date |-> Rfc1123(dt)])

(* The header authenticate builds, lines 39-44 *)
BasicHeader(login, password) ==
    [ContentType |-> "application/json",
     Authorization |-> [scheme |-> "Basic ", b64 |-> <<login, ":", password>>]]

(* The account the caller logs in with *)
GateAccount == <<"h1", "u1", "p1">>

(* The object after a login at time 0 that was given a credential of the given lifetime *)
LoggedIn(ttl) ==
    authenticate(Cleared, NoOrigin, Some(GateAccount[1]), Some(GateAccount[2]), Some(GateAccount[3]),
                 [kind |-> "reply", missing |-> "", ttl |-> ttl, frac |-> ""], 1, 0)

Wire(op, to, method, headers, data) ==
    [op |-> op, to |-> to, method |-> method, headers |-> headers, data |-> data]

InitGate ==
    /\ ExportIdle /\ MarkersIdle /\ MoIdle /\ ConcIdle /\ SignIdle /\ FormatIdle
    /\ \/ CredInit
       \/ \E ttl \in 0..MaxTTL :
             /\ self = LoggedIn(ttl).obj
             /\ origin = LoggedIn(ttl).org
             /\ now = 0
             /\ posts = 1
             /\ last = Idle("init")
    /\ utc \in [sec : {0}, frac : {0, 5}]
    /\ g_pc = "idle"
    /\ g_op \in Operations
    /\ g_dt = None
    /\ g_tok = None
    /\ g_headers = None
    /\ g_log = <<>>

(* authenticate called by the user: the one request sent with a header      *)
(* that __get_headers did not build, lines 39-47                            *)
GLogin ==
    /\ g_pc = "idle"
    /\ ~Signed(g_op)
    /\ \E out \in LoginOutcomes :
        LET a == GateAccount
            r == authenticate(self, origin, Some(a[1]), Some(a[2]), Some(a[3]), out, posts + 1, now)
        IN  /\ posts + r.posts <= MaxLogins
            /\ self' = r.obj
            /\ origin' = r.org
            /\ posts' = posts + r.posts
            /\ last' = Call("authenticate", r, 0)
            /\ g_log' = IF r.posts = 1
                        THEN Append(g_log, Event("send", g_op,
                                 Wire(g_op, <<Some(a[1]), "/authenticate">>, "POST",
                                          BasicHeader(a[2], a[3]), PyValue("NoneType", <<>>))))
                        ELSE g_log
    /\ g_pc' = "done"
    /\ UNCHANGED <<now, utc, g_op, g_dt, g_tok, g_headers, notGate>>

(* a domain operation enters __get_headers; line 719 *)
GEnter ==
    /\ g_pc = "idle"
    /\ Signed(g_op)
    /\ g_dt' = Some(utc)
    /\ g_pc' = "token"
    /\ UNCHANGED <<credVars, utc, g_op, g_tok, g_headers, g_log, notGate>>

(* time passes while the credential is obtained and the request is signed *)
GClock ==
    /\ g_pc \in {"token", "sign"}
    /\ utc.sec < MaxUtc
    /\ \E f \in {0, 5} : utc' = [sec |-> utc.sec + 1, frac |-> f]
    /\ UNCHANGED <<credVars, g_pc, g_op, g_dt, g_tok, g_headers, g_log, notGate>>

(* line 720 *)
GToken ==
    /\ g_pc = "token"
    /\ \E out \in LoginOutcomes :
        LET r == get_token(self, origin, out, posts + 1, now)
        IN  /\ posts + r.posts <= MaxLogins
            /\ self' = r.obj
            /\ origin' = r.org
            /\ posts' = posts + r.posts
            /\ last' = Call("get_token", r, 0)
            /\ g_log' = Append(g_log, Event("get_token", g_op, IF r.exc = "" THEN r.ret ELSE None))
            /\ g_tok' = IF r.exc = "" THEN r.ret ELSE None
            /\ g_pc' = IF r.exc = "" THEN "sign" ELSE "raised"
    /\ UNCHANGED <<now, utc, g_op, g_dt, g_headers, notGate>>

(* lines 721-732 *)
GSign ==
    /\ g_pc = "sign"
    /\ LET key == Val(Val(g_tok)[1])
           secret == Val(Val(g_tok)[2])
           h == get_headers(key, secret, OpContent(g_op), OpUrl(g_op), OpMethod(g_op), Val(g_dt))
       IN  IF h.kind = "raise"
           THEN g_pc' = "raised" /\ UNCHANGED g_headers
           ELSE g_pc' = "send" /\ g_headers' = Some(h.val)
    /\ UNCHANGED <<credVars, utc, g_op, g_dt, g_tok, g_log, notGate>>

(* requests.get / requests.post(self.hostname + url, headers=headers, ...) *)
GSend ==
    /\ g_pc = "send"
    /\ g_log' = Append(g_log, Event("send", g_op,
                    Wire(g_op, <<self.hostname, OpUrl(g_op).path>>, OpMethod(g_op),
                             Val(g_headers), OpContent(g_op))))
    /\ g_pc' = "done"
    /\ UNCHANGED <<credVars, utc, g_op, g_dt, g_tok, g_headers, notGate>>

NextGate == GLogin \/ GEnter \/ GClock \/ GToken \/ GSign \/ GSend

SpecGate == InitGate /\ [][NextGate]_vars

(* Properties of __get_headers and its callers, checked under SpecGate *)

(* C11: every request a domain operation sends follows, within that         *)
(* operation, a __get_token call that returned a pair, and its              *)
(* Authorization header is what __fn_sign makes of that pair (with the      *)
(* operation's url, content and method and the captured dt).                *)
C11_SoleChokePoint ==
    \A i \in 1..Len(g_log) :
        (g_log[i].ev = "send" /\ g_log[i].arg \in DomainOps) =>
            \E j \in 1..(i - 1) :
                /\ g_log[j].ev = "get_token"
                /\ g_log[j].arg = g_log[i].arg
                /\ g_log[j].got # None
                /\ LET pair == Val(g_log[j].got)
                       op == g_log[i].arg
                   IN  g_log[i].got.headers.Authorization =
                           fn_sign(Val(pair[1]), Val(pair[2]), OpUrl(op), OpContent(op),
                                   OpMethod(op), "application/json", Val(g_dt)).val

(* get_chain sent its request after a refresh that logged in again *)
C11_Witness ==
    /\ g_pc = "done"
    /\ g_op = "get_chain"
    /\ Len(g_log) = 2
    /\ g_log[2].ev = "send"
    /\ last.posts = 1
    /\ g_log[2].got.headers.Authorization.key = [k |-> 2]

(* C12: in the headers __get_headers returns, the Date header and the       *)
(* timestamp inside the signed string are the same instant, to the second,  *)
(* namely the one captured on entry, also when __get_token logged in again  *)
(* in between.                                                              *)
C12_DateIsSignedInstant ==
    g_headers # None =>
        LET h == Val(g_headers)
            raw == h.Authorization.digest.hmac[2]
        IN  /\ h.Date.rfc = raw[Len(raw) - 2].iso
            /\ h.Date.rfc = Val(g_dt).sec

(* headers built after a re-authentication during which the clock moved on  *)
(* from an instant that was not on a whole second                           *)
C12_Witness ==
    /\ g_headers # None
    /\ last.posts = 1
    /\ Val(g_dt).frac = 5
    /\ utc.sec > Val(g_dt).sec

----------------------------------------------------------------------------
(* reset and what follows it, checked under Spec *)

(* C21: whatever the object held, after reset hostname, login, password,    *)
(* key, secret and expiry are all None.                                     *)
C21_ResetClearsAll ==
    [][last'.op = "reset" =>
        /\ self'.hostname = None
        /\ self'.login = None
        /\ self'.password = None
        /\ self'.key = None
        /\ self'.secret = None
        /\ self'.expiry = None]_vars

(* a reset after both logins explored, the later one made at a later time *)
C21_Witness ==
    /\ last.op = "reset"
    /\ posts = MaxLogins
    /\ now > 0
    /\ self.key = None
    /\ self.login = None

(* C24: while no authenticate has succeeded since the last reset, a domain  *)
(* operation raises, sends no request to the service and none to the login  *)
(* endpoint, and leaves every field None.                                   *)
C24_ClearedOperationsFail ==
    [][(last'.op = "request" /\ origin.expiry = None) =>
        /\ last'.exc # ""
        /\ last'.sent = 0
        /\ last'.posts = 0
        /\ self' = Cleared]_vars

----------------------------------------------------------------------------
(* More properties of get_markers_per_panels, checked under SpecMarkers *)

(* C22: with distinct marker names, every step of the scan leaves each      *)
(* group with the panels it held, in place, possibly followed by one more:  *)
(* no panel empties or replaces a group that holds panels.                  *)
C22_GroupsOnlyGrow ==
    [][DistinctNames =>
        \A n \in DOMAIN panels_per_markers :
            /\ n \in DOMAIN panels_per_markers'
            /\ Len(panels_per_markers'[n]) >= Len(panels_per_markers[n])
            /\ SubSeq(panels_per_markers'[n], 1, Len(panels_per_markers[n])) = panels_per_markers[n]]_vars

----------------------------------------------------------------------------
(* Termination of the poll loop.  get_mo_quicktime_export is sequential     *)
(* code: when its next statement can run, it runs.                          *)

SpecExportLive == InitExport /\ [][NextExport]_vars /\ WF_vars(NextExport)

TerminalReported ==
    \E i \in 1..Len(x_log) :
        x_log[i].ev = "get_chain" /\ x_log[i].got \in {"completed", "errored", "timed out"}

(* the submission went through and every status fetch so far was answered   *)
(* with a status that is not terminal                                       *)
StillRunning ==
    /\ Len(x_log) >= 1
    /\ x_log[1].got = "ok"
    /\ \A i \in 2..Len(x_log) :
          x_log[i].ev = "get_chain" => x_log[i].got \in {"queued", "in progress"}

(* C23: once a status fetch is answered completed, errored or timed out,    *)
(* get_mo_quicktime_export eventually ends; and as long as every fetch is   *)
(* answered with a non-terminal status it has not ended, however many       *)
(* fetches it has made.                                                     *)
C23_EndsWhenJobEnds ==
    /\ TerminalReported ~> (x_pc = "done")
    /\ [](StillRunning => x_pc # "done")

(* the call ended on 'completed' after a 'queued' and an 'in progress' reply *)
C23_Witness ==
    /\ x_pc = "done"
    /\ Len(Polls) = 3
    /\ Polls[1].got = "queued"
    /\ Polls[2].got = "in progress"
    /\ Polls[3].got = "completed"
    /\ Count("get_asset") = 1

====
